---------------------------- MODULE Spec2Model ----------------------------
(* I2C bus scanner (i2c_scanner/main.c): main runs PerformScan at three    *)
(* bus speeds and then ClosePeripheralsAndHandlers; SIGTERM is handled by  *)
(* TerminationHandler, which only sets terminationRequired.                *)
EXTENDS Integers, Sequences, FiniteSets, TLC

VARIABLES
    pc,                  \* position of the main flow of control
    pass,                \* index of the PerformScan call in main (0 = none yet)
    terminationRequired, \* static volatile sig_atomic_t terminationRequired
    handlerInstalled,    \* sigaction(SIGTERM, ...) has been done
    sigCount,            \* number of SIGTERM deliveries so far
    i2cFd,               \* static int i2cFd
    busSpeed,            \* parameter of the running PerformScan
    addrH, addrL,        \* loop counters of the probing loops
    devAddr,             \* I2C_DeviceAddress devAddr
    scanResult,          \* uint8_t scanResult[128]: only the written entries
    detectionSuccess,    \* bool detectionSuccess
    section,             \* output: speed label of the current pass
    gridHeader,          \* output: column header printed in the current pass
    grid,                \* output: marker printed at (row label + column)
    summaryOpened,       \* output: "*** I2C devices detected at: " printed
    summary,             \* output: addresses printed on the summary line
    noDevicesMsg,        \* output: "NO DEVICES DETECTED" printed
    errLog,              \* output: error messages of the current pass
    probes,              \* addresses passed to I2CMaster_Read, in call order
    acked,               \* addresses whose read returned a value other than -1
    nacked,              \* addresses whose read returned -1
    calls,               \* per pass: number of open/speed/timeout calls made
    api,                 \* per pass: what open/speed/timeout returned
    handles,             \* per pass: the handle its I2CMaster_Open returned
    openedWith,          \* per pass: handles still open when Open was called
    closeLog,            \* every close() call: who called, on which fd
    termSetAt,           \* where the main flow was when the flag became set
    startedAfterTerm,    \* passes entered while the flag was already set
    exitStatus           \* <<>> while running, <<status>> after main returns

vars == <<pc, pass, terminationRequired, handlerInstalled, sigCount, i2cFd,
          busSpeed, addrH, addrL, devAddr, scanResult, detectionSuccess,
          section, gridHeader, grid, summaryOpened, summary, noDevicesMsg,
          errLog, probes, acked, nacked, calls, api, handles, openedWith,
          closeLog, termSetAt, startedAfterTerm, exitStatus>>

passLocals == <<busSpeed, addrH, addrL, devAddr, scanResult, detectionSuccess>>
passOutput == <<section, gridHeader, grid, summaryOpened, summary, noDevicesMsg, errLog>>
passReads == <<probes, acked, nacked>>
sigVars == <<terminationRequired, handlerInstalled, sigCount, termSetAt>>

-----------------------------------------------------------------------------
(* Bounds of the model *)

\* number of addresses at which a device may acknowledge a read
MaxResponders == 2
\* number of SIGTERM deliveries considered
MaxSignals == 1

(* Program constants *)

NumPasses == 3
AddrHLimit == 128
AddrHStep == 16
AddrLLimit == 16
SummaryFirst == 1
SummaryLimit == 128
ReadError == -1

STR_NO_DETECTION == ".. "
STR_DETECTION == "[] "
STR_BLANK == "   "

\* the argument of the three PerformScan calls of main, in call order
PassSpeed == <<"I2C_BUS_SPEED_FAST_PLUS", "I2C_BUS_SPEED_FAST", "I2C_BUS_SPEED_STANDARD">>

Passes == 1..NumPasses

-----------------------------------------------------------------------------
(* The bus and the descriptor table, as seen through the applibs calls *)

\* the i-th address at which a device may be attached: 127, 1, 126, 2, ...
ResponderAddr(i) == IF i % 2 = 1 THEN AddrHLimit - ((i + 1) \div 2) ELSE i \div 2
Responders == {ResponderAddr(i) : i \in 1..MaxResponders}

\* values I2CMaster_Read(fd, a, &reply, 1) can return: 1 byte read, or -1
ReadReturns(fd, open, a) ==
    IF fd \in open /\ a \in Responders THEN {ReadError, 1} ELSE {ReadError}

\* values I2CMaster_SetBusSpeed / I2CMaster_SetTimeout can return
ConfigReturns(fd, open) == IF fd \in open THEN {0, -1} ELSE {-1}

OpenFds(h) == {h[p].fd : p \in {q \in Passes : h[q].state = "open"}}

StdFds == {0, 1, 2}
\* a successful open returns the lowest descriptor not in use
AllocFd(h) ==
    LET free == (0..(NumPasses + 3)) \ (StdFds \cup OpenFds(h))
    IN CHOOSE n \in free : \A m \in free : n <= m

\* the handle a descriptor value denotes: the latest one that was given it
HandleOf(h, fd) ==
    LET ps == {p \in Passes : h[p].state # "none" /\ h[p].fd = fd}
    IN IF ps = {} THEN 0 ELSE CHOOSE p \in ps : \A q \in ps : q <= p

\* close(fd): releases the handle; on an invalid or closed fd it only fails
CloseFd(h, fd) ==
    LET p == HandleOf(h, fd)
    IN IF fd < 0 \/ p = 0 THEN h
       ELSE [h EXCEPT ![p].state = "closed", ![p].closes = @ + 1]

-----------------------------------------------------------------------------
(* Pure pieces of PerformScan *)

RECURSIVE BitOr(_, _)
BitOr(a, b) ==
    IF a = 0 /\ b = 0 THEN 0
    ELSE (IF a % 2 = 1 \/ b % 2 = 1 THEN 1 ELSE 0) + 2 * BitOr(a \div 2, b \div 2)

SpeedLabel(speed) ==
    CASE speed = "I2C_BUS_SPEED_STANDARD" -> "100 kHz"
      [] speed = "I2C_BUS_SPEED_FAST" -> "400 kHz"
      [] speed = "I2C_BUS_SPEED_FAST_PLUS" -> "1 MHz"
      [] OTHER -> "unknown speed"

OpenFailedBelowMinusOne(fd) == fd < -1
OpenFailed(fd) == fd < 0

ConfigFailedPositive(rc) == rc > 0
ConfigFailed(rc) == rc # 0

IsGeneralCallNever(d) == FALSE
IsGeneralCall(d) == d = 0

ReadSucceededZero(ret) == ret = 0
ReadSucceeded(ret) == ret # ReadError

NextAddrHSkipRow(h) == (h + 2 * AddrHStep) % 256
NextAddrH(h) == (h + AddrHStep) % 256

SummaryLoopContinuesShort(d) == d < SummaryLimit - 1
SummaryLoopContinues(d) == d < SummaryLimit

\* the values a read of scanResult[d] can give: garbage if never written
ScanResultAt(res, d) == IF d \in DOMAIN res THEN {res[d]} ELSE {0, 1}

Put(f, k, v) == [x \in (DOMAIN f) \cup {k} |-> IF x = k THEN v ELSE f[x]]

Empty == [x \in {} |-> 0]

NoCalls == [open |-> 0, speed |-> 0, timeout |-> 0]

-----------------------------------------------------------------------------
Init ==
    /\ pc = "start"
    /\ pass = 0
    /\ terminationRequired = FALSE
    /\ handlerInstalled = FALSE
    /\ sigCount = 0
    /\ i2cFd = -1
    /\ busSpeed = "none"
    /\ addrH = 0 /\ addrL = 0 /\ devAddr = 0
    /\ scanResult = Empty
    /\ detectionSuccess = FALSE
    /\ section = "" /\ gridHeader = FALSE /\ grid = Empty
    /\ summaryOpened = FALSE /\ summary = <<>> /\ noDevicesMsg = FALSE
    /\ errLog = {}
    /\ probes = <<>> /\ acked = {} /\ nacked = {}
    /\ calls = [p \in Passes |-> NoCalls]
    /\ api = [p \in Passes |-> [open |-> "none", speed |-> "none", timeout |-> "none"]]
    /\ handles = [p \in Passes |-> [state |-> "none", fd |-> -1, closes |-> 0]]
    /\ openedWith = [p \in Passes |-> {}]
    /\ closeLog = <<>>
    /\ termSetAt = [pc |-> "none", pass |-> 0]
    /\ startedAfterTerm = {}
    /\ exitStatus = <<>>

\* main calls PerformScan(PassSpeed[p]): fresh locals, a new output section
EnterScan(p) ==
    /\ pc' = "open"
    /\ pass' = p
    /\ busSpeed' = PassSpeed[p]
    /\ addrH' = 0 /\ addrL' = 0 /\ devAddr' = 0
    /\ scanResult' = Empty
    /\ detectionSuccess' = FALSE
    /\ section' = "" /\ gridHeader' = FALSE /\ grid' = Empty
    /\ summaryOpened' = FALSE /\ summary' = <<>> /\ noDevicesMsg' = FALSE
    /\ errLog' = {}
    /\ probes' = <<>> /\ acked' = {} /\ nacked' = {}
    /\ startedAfterTerm' = IF terminationRequired THEN startedAfterTerm \cup {p}
                           ELSE startedAfterTerm

TerminationHandler ==
    /\ handlerInstalled
    /\ exitStatus = <<>>
    /\ sigCount < MaxSignals
    /\ sigCount' = sigCount + 1
    /\ terminationRequired' = TRUE
    /\ termSetAt' = IF terminationRequired THEN termSetAt ELSE [pc |-> pc, pass |-> pass]
    /\ UNCHANGED <<pc, pass, handlerInstalled, i2cFd, passLocals, passOutput, passReads,
                   calls, api, handles, openedWith, closeLog, startedAfterTerm, exitStatus>>

InitPeripheralsAndHandlers ==
    /\ pc = "start"
    /\ handlerInstalled' = TRUE
    /\ pc' = "check"
    /\ UNCHANGED <<pass, terminationRequired, sigCount, termSetAt, i2cFd, passLocals,
                   passOutput, passReads, calls, api, handles, openedWith, closeLog,
                   startedAfterTerm, exitStatus>>

\* main: if (!terminationRequired) { PerformScan(...); ... }
MainCheck ==
    /\ pc = "check"
    /\ IF ~terminationRequired
       THEN EnterScan(1)
       ELSE /\ pc' = "cleanup"
            /\ UNCHANGED <<pass, passLocals, passOutput, passReads, startedAfterTerm>>
    /\ UNCHANGED <<sigVars, i2cFd, calls, api, handles, openedWith, closeLog, exitStatus>>

\* PerformScan: the section label and I2CMaster_Open
ScanOpen ==
    /\ pc = "open"
    /\ section' = SpeedLabel(busSpeed)
    /\ calls' = [calls EXCEPT ![pass].open = @ + 1]
    /\ openedWith' = [openedWith EXCEPT ![pass] = OpenFds(handles)]
    /\ \E ok \in BOOLEAN :
         LET fd == IF ok THEN AllocFd(handles) ELSE -1
         IN /\ i2cFd' = fd
            /\ api' = [api EXCEPT ![pass].open = IF ok THEN "ok" ELSE "fail"]
            /\ handles' = IF ok
                          THEN [handles EXCEPT ![pass] =
                                   [state |-> "open", fd |-> fd, closes |-> 0]]
                          ELSE handles
            /\ IF OpenFailed(fd)
               THEN /\ errLog' = errLog \cup {"I2CMaster_Open"}
                    /\ pc' = "ret"
               ELSE /\ errLog' = errLog
                    /\ pc' = "speed"
    /\ UNCHANGED <<pass, sigVars, passLocals, gridHeader, grid, summaryOpened, summary,
                   noDevicesMsg, passReads, closeLog, startedAfterTerm, exitStatus>>

ScanSetBusSpeed ==
    /\ pc = "speed"
    /\ calls' = [calls EXCEPT ![pass].speed = @ + 1]
    /\ \E rc \in ConfigReturns(i2cFd, OpenFds(handles)) :
         /\ api' = [api EXCEPT ![pass].speed = IF rc = 0 THEN "ok" ELSE "fail"]
         /\ IF ConfigFailed(rc)
            THEN /\ errLog' = errLog \cup {"I2CMaster_SetBusSpeed"}
                 /\ pc' = "ret"
            ELSE /\ errLog' = errLog
                 /\ pc' = "timeout"
    /\ UNCHANGED <<pass, sigVars, i2cFd, passLocals, section, gridHeader, grid,
                   summaryOpened, summary, noDevicesMsg, passReads, handles, openedWith,
                   closeLog, startedAfterTerm, exitStatus>>

\* I2CMaster_SetTimeout, then the header row of the grid
ScanSetTimeout ==
    /\ pc = "timeout"
    /\ calls' = [calls EXCEPT ![pass].timeout = @ + 1]
    /\ \E rc \in ConfigReturns(i2cFd, OpenFds(handles)) :
         /\ api' = [api EXCEPT ![pass].timeout = IF rc = 0 THEN "ok" ELSE "fail"]
         /\ IF ConfigFailed(rc)
            THEN /\ errLog' = errLog \cup {"I2CMaster_SetTimeout"}
                 /\ pc' = "ret"
                 /\ UNCHANGED <<gridHeader, addrH, addrL>>
            ELSE /\ errLog' = errLog
                 /\ gridHeader' = TRUE
                 /\ addrH' = 0 /\ addrL' = 0
                 /\ pc' = "probe"
    /\ UNCHANGED <<pass, sigVars, i2cFd, busSpeed, devAddr, scanResult, detectionSuccess,
                   section, grid, summaryOpened, summary, noDevicesMsg, passReads,
                   handles, openedWith, closeLog, startedAfterTerm, exitStatus>>

\* one iteration of the inner loop, with the loop control that follows it
ProbeStep ==
    /\ pc = "probe"
    /\ LET d == BitOr(addrH, addrL)
           cell == addrH + addrL
       IN /\ devAddr' = d
          /\ IF IsGeneralCall(d)
             THEN /\ grid' = Put(grid, cell, STR_BLANK)
                  /\ scanResult' = Put(scanResult, d, 0)
                  /\ UNCHANGED passReads
             ELSE \E ret \in ReadReturns(i2cFd, OpenFds(handles), d) :
                    /\ probes' = Append(probes, d)
                    /\ acked' = IF ret # ReadError THEN acked \cup {d} ELSE acked
                    /\ nacked' = IF ret = ReadError THEN nacked \cup {d} ELSE nacked
                    /\ IF ReadSucceeded(ret)
                       THEN /\ grid' = Put(grid, cell, STR_DETECTION)
                            /\ scanResult' = Put(scanResult, d, 1)
                       ELSE /\ grid' = Put(grid, cell, STR_NO_DETECTION)
                            /\ scanResult' = Put(scanResult, d, 0)
    /\ IF addrL + 1 < AddrLLimit
       THEN /\ addrL' = addrL + 1
            /\ addrH' = addrH
            /\ pc' = "probe"
       ELSE /\ addrL' = 0
            /\ addrH' = NextAddrH(addrH)
            /\ pc' = IF NextAddrH(addrH) < AddrHLimit THEN "probe" ELSE "sumbegin"
    /\ UNCHANGED <<pass, sigVars, i2cFd, busSpeed, detectionSuccess, section, gridHeader,
                   summaryOpened, summary, noDevicesMsg, errLog, calls, api, handles,
                   openedWith, closeLog, startedAfterTerm, exitStatus>>

\* a probing loop that polls the termination flag and gives up the pass
ProbeStepAbortable ==
    IF terminationRequired
    THEN /\ pc = "probe"
         /\ pc' = "close"
         /\ UNCHANGED <<pass, sigVars, i2cFd, passLocals, passOutput, passReads, calls,
                        api, handles, openedWith, closeLog, startedAfterTerm, exitStatus>>
    ELSE ProbeStep

ScanProbe == ProbeStep

ScanSummaryBegin ==
    /\ pc = "sumbegin"
    /\ detectionSuccess' = FALSE
    /\ summaryOpened' = TRUE
    /\ devAddr' = SummaryFirst
    /\ pc' = "summary"
    /\ UNCHANGED <<pass, sigVars, i2cFd, busSpeed, addrH, addrL, scanResult, section,
                   gridHeader, grid, summary, noDevicesMsg, errLog, passReads, calls, api,
                   handles, openedWith, closeLog, startedAfterTerm, exitStatus>>

ScanSummaryStep ==
    /\ pc = "summary"
    /\ SummaryLoopContinues(devAddr)
    /\ \E v \in ScanResultAt(scanResult, devAddr) :
         IF v # 0
         THEN /\ summary' = Append(summary, devAddr)
              /\ detectionSuccess' = TRUE
         ELSE UNCHANGED <<summary, detectionSuccess>>
    /\ devAddr' = devAddr + 1
    /\ UNCHANGED <<pc, pass, sigVars, i2cFd, busSpeed, addrH, addrL, scanResult, section,
                   gridHeader, grid, summaryOpened, noDevicesMsg, errLog, passReads, calls,
                   api, handles, openedWith, closeLog, startedAfterTerm, exitStatus>>

ScanSummaryEnd ==
    /\ pc = "summary"
    /\ ~SummaryLoopContinues(devAddr)
    /\ noDevicesMsg' = ~detectionSuccess
    /\ pc' = "close"
    /\ UNCHANGED <<pass, sigVars, i2cFd, passLocals, section, gridHeader, grid,
                   summaryOpened, summary, errLog, passReads, calls, api, handles,
                   openedWith, closeLog, startedAfterTerm, exitStatus>>

\* close(i2cFd) at the end of PerformScan
ScanClose ==
    /\ pc = "close"
    /\ handles' = CloseFd(handles, i2cFd)
    /\ closeLog' = Append(closeLog, [by |-> "PerformScan", pass |-> pass, fd |-> i2cFd])
    /\ pc' = "ret"
    /\ UNCHANGED <<pass, sigVars, i2cFd, passLocals, passOutput, passReads, calls, api,
                   openedWith, startedAfterTerm, exitStatus>>

\* PerformScan has returned: main goes on to its next statement
ScanReturn ==
    /\ pc = "ret"
    /\ IF pass < NumPasses
       THEN EnterScan(pass + 1)
       ELSE /\ pc' = "cleanup"
            /\ UNCHANGED <<pass, passLocals, passOutput, passReads, startedAfterTerm>>
    /\ UNCHANGED <<sigVars, i2cFd, calls, api, handles, openedWith, closeLog, exitStatus>>

ClosePeripheralsAndHandlers ==
    /\ pc = "cleanup"
    /\ handles' = CloseFd(handles, i2cFd)
    /\ closeLog' = Append(closeLog, [by |-> "ClosePeripheralsAndHandlers", pass |-> 0,
                                     fd |-> i2cFd])
    /\ pc' = "exit"
    /\ UNCHANGED <<pass, sigVars, i2cFd, passLocals, passOutput, passReads, calls, api,
                   openedWith, startedAfterTerm, exitStatus>>

\* main: return 0
MainReturn ==
    /\ pc = "exit"
    /\ exitStatus' = <<0>>
    /\ pc' = "done"
    /\ UNCHANGED <<pass, sigVars, i2cFd, passLocals, passOutput, passReads, calls, api,
                   handles, openedWith, closeLog, startedAfterTerm>>

Next ==
    \/ TerminationHandler
    \/ InitPeripheralsAndHandlers
    \/ MainCheck
    \/ ScanOpen
    \/ ScanSetBusSpeed
    \/ ScanSetTimeout
    \/ ScanProbe
    \/ ScanSummaryBegin
    \/ ScanSummaryStep
    \/ ScanSummaryEnd
    \/ ScanClose
    \/ ScanReturn
    \/ ClosePeripheralsAndHandlers
    \/ MainReturn

Spec == Init /\ [][Next]_vars

-----------------------------------------------------------------------------
(* Properties *)

ProbeAddrs == 1..(AddrHLimit - 1)

PassConfigured ==
    /\ pass \in Passes
    /\ api[pass].open = "ok" /\ api[pass].speed = "ok" /\ api[pass].timeout = "ok"

ProbingDone == pc \in {"sumbegin", "summary", "close", "ret"}

Ascending(s) == \A i \in 1..(Len(s) - 1) : s[i] < s[i + 1]

Range(s) == {s[i] : i \in DOMAIN s}

\* the address of the latest read, as a set (empty before the first read)
LastProbed == IF probes = <<>> THEN {} ELSE {probes[Len(probes)]}

\* the relation between what the read for a returned and what was recorded
RecordedAsRead(a) ==
    /\ a \in DOMAIN scanResult /\ a \in DOMAIN grid
    /\ scanResult[a] = 1 <=> a \in acked
    /\ grid[a] = STR_DETECTION <=> a \in acked
    /\ scanResult[a] = 0 <=> a \in nacked
    /\ grid[a] = STR_NO_DETECTION <=> a \in nacked

NoScanOutput ==
    /\ probes = <<>> /\ acked = {} /\ nacked = {}
    /\ ~gridHeader /\ grid = Empty
    /\ ~summaryOpened /\ summary = <<>> /\ ~noDevicesMsg

\* C1: at process exit every handle a successful I2CMaster_Open returned has
\* been closed exactly once: none is leaked and none is closed a second time.
C1_EveryHandleClosedOnce ==
    pc = "done" =>
        \A p \in Passes : handles[p].state # "none" => handles[p].closes = 1

\* C2: in a pass whose open and configuration succeeded, right after the read
\* for an address a, and for every a in 1..127 when the probing is over and
\* when the pass returns, scanResult[a] is 1 and its grid cell "[] " exactly
\* when the read for a returned a value other than -1, and 0 / ".. " exactly
\* when it returned -1.
C2_ResultIsReadOutcome ==
    PassConfigured =>
        /\ \A a \in LastProbed : RecordedAsRead(a)
        /\ pc \in {"sumbegin", "ret"} =>
              /\ acked \cup nacked = ProbeAddrs
              /\ \A a \in ProbeAddrs : RecordedAsRead(a)

C2_Witness ==
    /\ PassConfigured /\ pc = "ret"
    /\ 127 \in acked /\ 1 \in nacked
    /\ scanResult[127] = 1 /\ scanResult[1] = 0

\* C3: when the summary of a pass is complete, it lists exactly the addresses
\* whose probe succeeded in that pass, strictly ascending (so each once), and
\* "NO DEVICES DETECTED" is printed exactly when that set is empty.
C3_SummaryListsDetected ==
    (PassConfigured /\ pc \in {"close", "ret"}) =>
        /\ summaryOpened
        /\ Ascending(summary)
        /\ Range(summary) = acked
        /\ noDevicesMsg <=> acked = {}

C3_Witness ==
    /\ PassConfigured /\ pc = "ret"
    /\ summary = <<1, 127>> /\ ~noDevicesMsg

\* C4: address 0 is never the address of a read, its grid cell is only ever
\* the blank marker (and is that marker once the grid is printed), and it is
\* never printed on the summary line.
C4_GeneralCallNeverProbed ==
    /\ 0 \notin LastProbed
    /\ 0 \notin acked \cup nacked
    /\ 0 \in DOMAIN grid => grid[0] = STR_BLANK
    /\ (PassConfigured /\ ProbingDone) => 0 \in DOMAIN grid
    /\ summary # <<>> => summary[1] # 0 /\ summary[Len(summary)] # 0
    /\ pc = "ret" => 0 \notin Range(probes) \cup Range(summary)

C4_Witness ==
    /\ PassConfigured /\ pc = "ret"
    /\ grid[0] = STR_BLANK /\ Len(probes) > 0 /\ Len(summary) > 0

\* C5: in a pass whose open and configuration succeeded the n-th read is the
\* read of address n, whatever the reads return, and when probing is over
\* exactly 127 reads have been issued: 1, 2, ..., 127, each once.
C5_EachAddressProbedOnceInOrder ==
    PassConfigured =>
        /\ probes # <<>> => probes[Len(probes)] = Len(probes)
        /\ ProbingDone => Len(probes) = AddrHLimit - 1
        /\ pc = "ret" => probes = [i \in ProbeAddrs |-> i]

C5_Witness ==
    /\ PassConfigured /\ pc = "close"
    /\ Len(probes) = 127 /\ 1 \in nacked /\ 2 \in nacked /\ 127 \in acked

\* C6: when I2CMaster_Open fails in a pass, the pass issues no probe and
\* prints no grid and no summary, the open error is logged and no
\* configuration call is made; when the process has exited after such a pass,
\* ClosePeripheralsAndHandlers has called close and the exit status is 0.
C6_OpenFailure ==
    /\ (pass \in Passes /\ api[pass].open = "fail") =>
         /\ NoScanOutput
         /\ "I2CMaster_Open" \in errLog
         /\ calls[pass].speed = 0 /\ calls[pass].timeout = 0
         /\ pc \in {"ret", "cleanup", "exit", "done"}
    /\ (pc = "done" /\ \E p \in Passes : api[p].open = "fail") =>
         /\ exitStatus = <<0>>
         /\ Len(closeLog) > 0
         /\ closeLog[Len(closeLog)].by = "ClosePeripheralsAndHandlers"
    /\ exitStatus # <<>> => pc = "done"

C6_Witness ==
    /\ pc = "done" /\ api[NumPasses].open = "fail"
    /\ closeLog[Len(closeLog)].fd = -1
    /\ exitStatus = <<0>>

\* C7: when I2CMaster_SetBusSpeed or I2CMaster_SetTimeout fails in a pass, the
\* pass issues no probe and prints no grid and no summary, each configuration
\* call was made at most once, and the failure is logged; at process exit the
\* status is 0 and every pass after the failed one was attempted.
C7_ConfigFailure ==
    /\ (pass \in Passes /\ api[pass].open = "ok"
          /\ (api[pass].speed = "fail" \/ api[pass].timeout = "fail")) =>
         /\ NoScanOutput
         /\ calls[pass].speed = 1 /\ calls[pass].timeout <= 1
         /\ api[pass].speed = "fail" =>
              ("I2CMaster_SetBusSpeed" \in errLog /\ calls[pass].timeout = 0)
         /\ api[pass].timeout = "fail" => "I2CMaster_SetTimeout" \in errLog
         /\ pc \in {"ret", "cleanup", "exit", "done"}
    /\ pc = "done" =>
         /\ exitStatus = <<0>>
         /\ \A p \in Passes :
              (api[p].speed = "fail" \/ api[p].timeout = "fail") =>
                  \A q \in Passes : q > p => calls[q].open = 1

C7_Witness ==
    /\ pc = "done" /\ exitStatus = <<0>>
    /\ api[1].speed = "fail" /\ api[2].timeout = "fail"
    /\ api[3].timeout = "ok"

\* C8: no pass is entered while terminationRequired is already set.
C8_NoPassStartedAfterTermination == startedAfterTerm = {}

\* C9: a pass during whose probing the termination flag became set does not
\* return before it has read every address 1..127 in order, printed the whole
\* grid and the summary and closed its handle, and its scan result and summary
\* are those the reads alone determine.
C9_StartedPassRunsToCompletion ==
    (pc = "ret" /\ termSetAt.pc = "probe" /\ termSetAt.pass = pass) =>
        /\ probes = [i \in ProbeAddrs |-> i]
        /\ DOMAIN grid = 0..(AddrHLimit - 1)
        /\ scanResult = [a \in 0..(AddrHLimit - 1) |-> IF a \in acked THEN 1 ELSE 0]
        /\ summaryOpened /\ Ascending(summary) /\ Range(summary) = acked
        /\ noDevicesMsg <=> acked = {}
        /\ handles[pass].state = "closed" /\ handles[pass].closes = 1

C9_Witness ==
    /\ pc = "ret" /\ termSetAt.pc = "probe" /\ termSetAt.pass = pass
    /\ terminationRequired /\ acked # {} /\ Len(probes) = 127

\* C10: whenever a pass calls I2CMaster_Open, every handle obtained by an
\* earlier pass has already been closed.
C10_NoHandleOpenAtOpen == \A p \in Passes : openedWith[p] = {}

=============================================================================
